---- MODULE Spec2Model ----
(***************************************************************************)
(* scripts/find_version_empty.py: load package-lock.json, run the shallow  *)
(* `packages` pre-pass, walk the parsed value recursively, print every     *)
(* flagged path and the total.                                             *)
(*                                                                         *)
(* Text is a sequence of one-character strings, so that building a path    *)
(* (f-strings), formatting an index and printing a line are real string    *)
(* operations.  A JSON value is a record                                   *)
(*    [t, n, s, ks, xs]                                                    *)
(* t the Python type json.loads produces ("null", "bool", "num", "str",    *)
(* "list", "dict"), n the number or the boolean (0/1), s the text of a     *)
(* string, xs the elements of a list or the member values of a dict in     *)
(* insertion order, ks the member keys of a dict in the same order.        *)
(***************************************************************************)
EXTENDS Integers, Sequences, FiniteSets

VARIABLES pc, file, data, EMPTY, src, it, stack, out, pj, err

vars == <<pc, file, data, EMPTY, src, it, stack, out, pj, err>>

(***************************************************************************)
(* Bounds of the checked inputs.                                           *)
(***************************************************************************)
MaxMembers == 2

MaxItems == 2

(***************************************************************************)
(* Text.                                                                   *)
(***************************************************************************)
NL == "\n"

sRoot == <<"r", "o", "o", "t">>

sVersion == <<"v", "e", "r", "s", "i", "o", "n">>

sPackages == <<"p", "a", "c", "k", "a", "g", "e", "s">>

sTotal == <<"t", "o", "t", "a", "l">>

sEmpty == <<>>

sSpace == <<" ">>

sDot == <<".">>

sIdx0 == <<"[", "0", "]">>

sNewline == <<NL>>

sA == <<"a">>

Digit(d) == CASE d = 0 -> "0" [] d = 1 -> "1" [] d = 2 -> "2" [] d = 3 -> "3"
              [] d = 4 -> "4" [] d = 5 -> "5" [] d = 6 -> "6" [] d = 7 -> "7"
              [] d = 8 -> "8" [] d = 9 -> "9"

RECURSIVE Str(_)
\* str(n) of a non-negative int: its decimal digits.
Str(n) == IF n < 10 THEN <<Digit(n)>> ELSE Str(n \div 10) \o <<Digit(n % 10)>>

\* needle in hay, for two str: substring test.
Substring(needle, hay) ==
    \E i \in 0..(Len(hay) - Len(needle)) :
        \A j \in 1..Len(needle) : hay[i + j] = needle[j]

(***************************************************************************)
(* JSON values as json.loads returns them.                                 *)
(***************************************************************************)
JNull == [t |-> "null", n |-> 0, s |-> <<>>, ks |-> <<>>, xs |-> <<>>]

JBool(b) == [t |-> "bool", n |-> IF b THEN 1 ELSE 0, s |-> <<>>, ks |-> <<>>, xs |-> <<>>]

JNum(i) == [t |-> "num", n |-> i, s |-> <<>>, ks |-> <<>>, xs |-> <<>>]

JStr(txt) == [t |-> "str", n |-> 0, s |-> txt, ks |-> <<>>, xs |-> <<>>]

JList(items) == [t |-> "list", n |-> 0, s |-> <<>>, ks |-> <<>>, xs |-> items]

JDict(keys, vals) == [t |-> "dict", n |-> 0, s |-> <<>>, ks |-> keys, xs |-> vals]

Obj1(k, v) == JDict(<<k>>, <<v>>)

Obj2(k1, v1, k2, v2) == JDict(<<k1, k2>>, <<v1, v2>>)

\* All lists of at most n elements of S.
Lists(S, n) == UNION {{JList(q) : q \in [1..m -> S]} : m \in 0..n}

\* All dicts of at most n members, keys distinct and from K, values from S, in
\* every insertion order.
Objects(K, S, n) ==
    UNION {{JDict(kq, vq) : kq \in {q \in [1..m -> K] :
                                     \A i, j \in 1..m : i # j => q[i] # q[j]},
                            vq \in [1..m -> S]} : m \in 0..n}

(***************************************************************************)
(* The documents package-lock.json may hold.                               *)
(***************************************************************************)
Leaves == {JNull, JBool(FALSE), JNum(0), JStr(sEmpty), JStr(sSpace), JStr(sPackages)}

\* What a `version` member may hold: every type of JSON value.
VersionVals == Leaves \cup {JList(<<>>), JDict(<<>>, <<>>)}

PkgEmpty == Obj1(sVersion, JStr(sEmpty))

PkgSpace == Obj1(sVersion, JStr(sSpace))

\* A dict with no member, or with a `version` member only.
Pkgs == {JDict(<<>>, <<>>)} \cup {Obj1(sVersion, v) : v \in VersionVals}

\* A flagged dict holding a flagged dict.
PkgNested == Obj2(sVersion, JStr(sEmpty), sA, PkgEmpty)

\* Lists of objects of lists.
DeepList == JList(<<PkgEmpty, Obj1(sA, JList(<<PkgSpace, PkgEmpty>>))>>)

RootKeys == {sVersion, sEmpty, sDot, sIdx0, sNewline}

RootVals == {JStr(sEmpty), JNull, PkgEmpty, Obj1(sEmpty, PkgEmpty), DeepList}

RootItems == {JStr(sPackages), PkgEmpty, PkgNested, JList(<<PkgSpace, PkgEmpty>>)}

PkgKeys == {sA, sDot, sNewline}

PkgVals == {PkgEmpty, PkgSpace, PkgNested, JNull}

\* What the member `packages` may hold.
PkgField ==
    Leaves \cup {JList(<<>>), JList(<<PkgEmpty>>)}
           \cup Objects(PkgKeys, PkgVals, MaxMembers)
           \cup {Obj1(sA, p) : p \in Pkgs}
           \cup {Obj1(sA, JList(<<PkgEmpty>>))}

\* A member kept beside `packages`.
Extras == {<<sVersion, JStr(sEmpty)>>, <<sA, PkgEmpty>>, <<sA, JNull>>}

PackagesDocs ==
    {Obj1(sPackages, f) : f \in PkgField}
      \cup {Obj2(x[1], x[2], sPackages, f) : x \in Extras, f \in PkgField}
      \cup {Obj2(sPackages, f, x[1], x[2]) : x \in Extras, f \in PkgField}

Documents ==
    Leaves \cup Lists(RootItems, MaxItems)
           \cup Objects(RootKeys, RootVals, MaxMembers)
           \cup PackagesDocs

\* What reading and parsing the file comes to.
Files == {[st |-> "missing", doc |-> JNull], [st |-> "invalid", doc |-> JNull]}
            \cup {[st |-> "ok", doc |-> d] : d \in Documents}

(***************************************************************************)
(* The Python operations the script applies to a value.                    *)
(***************************************************************************)
\* isinstance(obj, dict), isinstance(obj, list)
IsDict(obj) == obj.t = "dict"

IsList(obj) == obj.t = "list"

\* The position of key k among the members of dict obj, 0 if absent.
KeyPos(obj, k) ==
    IF \E i \in 1..Len(obj.ks) : obj.ks[i] = k
    THEN CHOOSE i \in 1..Len(obj.ks) : obj.ks[i] = k
    ELSE 0

\* obj.get(k, None)
DictGet(obj, k) == IF KeyPos(obj, k) = 0 THEN JNull ELSE obj.xs[KeyPos(obj, k)]

\* v == '' : true of the str of length 0 only.
EqEmptyStr(v) == v.t = "str" /\ v.s = <<>>

\* not v : the truth value Python gives v, negated.
Falsy(v) ==
    CASE v.t = "null" -> TRUE
      [] v.t \in {"bool", "num"} -> v.n = 0
      [] v.t = "str" -> v.s = <<>>
      [] OTHER -> v.xs = <<>>

\* A faulty variant of VersionIsEmpty: `not obj.get('version', None)`.
VersionIsFalsy(obj) == Falsy(DictGet(obj, sVersion))

\* obj.get('version', None) == ''
VersionIsEmpty(obj) == EqEmptyStr(DictGet(obj, sVersion))

\* A faulty variant of ObjAfterGet: obj.pop('version', None) in place of obj.get.
ObjAfterPop(obj) ==
    LET keep == SelectSeq([i \in 1..Len(obj.ks) |-> i], LAMBDA i : obj.ks[i] # sVersion)
    IN  [obj EXCEPT !.ks = [i \in 1..Len(keep) |-> obj.ks[keep[i]]],
                    !.xs = [i \in 1..Len(keep) |-> obj.xs[keep[i]]]]

\* The dict after obj.get('version', None): get only reads it.
ObjAfterGet(obj) == obj

\* 'packages' in data: "raise" for a value that is no container (TypeError),
\* else key membership (dict), element membership (list), substring (str).
InPackages(d) ==
    CASE d.t = "dict" -> IF KeyPos(d, sPackages) # 0 THEN "true" ELSE "false"
      [] d.t = "list" -> IF \E i \in 1..Len(d.xs) : d.xs[i] = JStr(sPackages)
                         THEN "true" ELSE "false"
      [] d.t = "str" -> IF Substring(sPackages, d.s) THEN "true" ELSE "false"
      [] OTHER -> "raise"

\* data['packages'].items() can be evaluated: data is a dict (a list or a str
\* takes no str subscript: TypeError) and the member is a dict (no other value
\* has .items: AttributeError).
ItemsError(d) ==
    CASE d.t # "dict" -> "TypeError"
      [] ~IsDict(DictGet(d, sPackages)) -> "AttributeError"
      [] OTHER -> "none"

\* f"packages[{key}]"
PrepassPath(key) == sPackages \o <<"[">> \o key \o <<"]">>

\* A faulty variant of KeyPath: the separator left out.
KeyPathNoDot(path, k) == path \o k

\* f"{path}.{k}"
KeyPath(path, k) == path \o <<".">> \o k

\* A faulty variant of IdxPath: the index left out.
IdxPathNoIdx(path, idx) == path \o <<"[">> \o <<"]">>

\* f"{path}[{idx}]"
IdxPath(path, idx) == path \o <<"[">> \o Str(idx) \o <<"]">>

\* A faulty variant of Record: the path is printed as soon as it is found.
RecordAndPrint(E, o, path) == [EMPTY |-> Append(E, path), out |-> o \o path \o <<NL>>]

\* A faulty variant of Record: the path is put first.
RecordFirst(E, o, path) == [EMPTY |-> <<path>> \o E, out |-> o]

\* EMPTY.append(path): the collection grows at its end, nothing is printed.
Record(E, o, path) == [EMPTY |-> Append(E, path), out |-> o]

\* print(item): the text and a line break.
PrintLine(o, item) == o \o item \o <<NL>>

\* print('total', len(EMPTY)): the two arguments, a space between them.
PrintTotalLine(o, E) == o \o sTotal \o <<" ">> \o Str(Len(E)) \o <<NL>>

(***************************************************************************)
(* Nodes of the parsed value.  A route is the sequence of positions (in    *)
(* xs) that leads from the root to a node; Python passes the node itself,  *)
(* which is the same object as the one inside data.                        *)
(***************************************************************************)
RECURSIVE NodeAt(_, _)
NodeAt(d, r) == IF r = <<>> THEN d ELSE NodeAt(d.xs[Head(r)], Tail(r))

RECURSIVE SetNode(_, _, _)
\* d with the node at route r being new (an update in place of that node).
SetNode(d, r, new) ==
    IF r = <<>> THEN new
    ELSE [d EXCEPT !.xs[Head(r)] = SetNode(d.xs[Head(r)], Tail(r), new)]

(***************************************************************************)
(* The program.  pc is the place in the module body: "load" (lines 3-4),   *)
(* "prepass" (line 7), "items" (the loop of lines 8-10), "walk" (line 22,  *)
(* the calls of walk being the frames of stack), "print" (lines 23-25),    *)
(* "done" (the end of the script), "crashed" (an uncaught exception, err). *)
(* src is a history variable: for each entry of EMPTY, who appended it and *)
(* the route of the dict it was appended for.                              *)
(***************************************************************************)
NoFrame == [route |-> <<>>, path |-> <<>>, i |-> 0]

\* The call walk(data): obj is data, path has its default 'root'.
RootFrame == [route |-> <<>>, path |-> sRoot, i |-> 0]

Top == IF stack = <<>> THEN NoFrame ELSE stack[Len(stack)]

\* The position of the member `packages` in data.
PkgPos == KeyPos(data, sPackages)

Init ==
    /\ pc = "load"
    /\ file \in Files
    /\ data = JNull
    /\ EMPTY = <<>>
    /\ src = <<>>
    /\ it = 0
    /\ stack = <<>>
    /\ out = <<>>
    /\ pj = 0
    /\ err = "none"

\* An uncaught exception ends the script.
Raise(e) ==
    /\ pc' = "crashed"
    /\ err' = e

\* path.read_text() and json.loads: the parsed value, or an exception.
Load ==
    /\ pc = "load"
    /\ IF file.st = "ok"
       THEN /\ data' = file.doc
            /\ pc' = "prepass"
            /\ err' = err
       ELSE /\ Raise(IF file.st = "missing" THEN "FileNotFoundError"
                                            ELSE "JSONDecodeError")
            /\ data' = data
    /\ UNCHANGED <<file, EMPTY, src, it, stack, out, pj>>

\* if 'packages' in data: and the head of the loop, data['packages'].items()
PrepassTest ==
    /\ pc = "prepass"
    /\ CASE InPackages(data) = "raise" ->
              /\ Raise("TypeError")
              /\ UNCHANGED <<it, stack>>
         [] InPackages(data) = "false" ->
              /\ pc' = "walk"
              /\ stack' = <<RootFrame>>
              /\ UNCHANGED <<it, err>>
         [] OTHER ->
              IF ItemsError(data) # "none"
              THEN /\ Raise(ItemsError(data))
                   /\ UNCHANGED <<it, stack>>
              ELSE /\ pc' = "items"
                   /\ it' = 1
                   /\ UNCHANGED <<stack, err>>
    /\ UNCHANGED <<file, data, EMPTY, src, out, pj>>

\* One turn of the loop over data['packages'].items(): lines 9-10.
PrepassItem ==
    /\ pc = "items"
    /\ it <= Len(data.xs[PkgPos].xs)
    /\ LET key == data.xs[PkgPos].ks[it]
           pkg == data.xs[PkgPos].xs[it]
           rec == Record(EMPTY, out, PrepassPath(key))
       IN  IF ~IsDict(pkg)
           THEN /\ Raise("AttributeError")
                /\ UNCHANGED <<data, EMPTY, src, it, out>>
           ELSE /\ data' = SetNode(data, <<PkgPos, it>>, ObjAfterGet(pkg))
                /\ IF VersionIsEmpty(pkg)
                   THEN /\ EMPTY' = rec.EMPTY
                        /\ out' = rec.out
                        /\ src' = Append(src, [by |-> "prepass", route |-> <<PkgPos, it>>])
                   ELSE UNCHANGED <<EMPTY, src, out>>
                /\ it' = it + 1
                /\ UNCHANGED <<pc, err>>
    /\ UNCHANGED <<file, stack, pj>>

\* The loop is exhausted: the script goes on to walk(data), line 22.
PrepassEnd ==
    /\ pc = "items"
    /\ it > Len(data.xs[PkgPos].xs)
    /\ pc' = "walk"
    /\ stack' = <<RootFrame>>
    /\ UNCHANGED <<file, data, EMPTY, src, it, out, pj, err>>

\* walk, lines 13-15 and 18: the type tests and the version test of a dict.
WalkVisit ==
    /\ pc = "walk"
    /\ stack # <<>>
    /\ Top.i = 0
    /\ LET obj == NodeAt(data, Top.route)
           rec == Record(EMPTY, out, Top.path)
       IN  IF IsDict(obj)
           THEN /\ data' = SetNode(data, Top.route, ObjAfterGet(obj))
                /\ IF VersionIsEmpty(obj)
                   THEN /\ EMPTY' = rec.EMPTY
                        /\ out' = rec.out
                        /\ src' = Append(src, [by |-> "walk", route |-> Top.route])
                   ELSE UNCHANGED <<EMPTY, src, out>>
           ELSE UNCHANGED <<data, EMPTY, src, out>>
    /\ stack' = [stack EXCEPT ![Len(stack)].i = 1]
    /\ UNCHANGED <<pc, file, it, pj, err>>

\* walk, lines 16-17 and 19-20: the next member or element, and the call of
\* walk on it with the longer path.
WalkNext ==
    /\ pc = "walk"
    /\ stack # <<>>
    /\ Top.i >= 1
    /\ LET obj == NodeAt(data, Top.route)
       IN  /\ IsDict(obj) \/ IsList(obj)
           /\ Top.i <= Len(obj.xs)
           /\ stack' = Append([stack EXCEPT ![Len(stack)].i = Top.i + 1],
                              [route |-> Append(Top.route, Top.i),
                               path |-> IF IsDict(obj)
                                        THEN KeyPath(Top.path, obj.ks[Top.i])
                                        ELSE IdxPath(Top.path, Top.i - 1),
                               i |-> 0])
    /\ UNCHANGED <<pc, file, data, EMPTY, src, it, out, pj, err>>

\* walk returns: a leaf, or a container whose loop is exhausted.  The return
\* of walk(data) leads to the loop of line 23.
WalkReturn ==
    /\ pc = "walk"
    /\ stack # <<>>
    /\ Top.i >= 1
    /\ LET obj == NodeAt(data, Top.route)
       IN  (IsDict(obj) \/ IsList(obj)) => Top.i > Len(obj.xs)
    /\ stack' = SubSeq(stack, 1, Len(stack) - 1)
    /\ IF Len(stack) = 1
       THEN /\ pc' = "print"
            /\ pj' = 1
       ELSE UNCHANGED <<pc, pj>>
    /\ UNCHANGED <<file, data, EMPTY, src, it, out, err>>

\* for item in EMPTY: print(item)
PrintItem ==
    /\ pc = "print"
    /\ pj <= Len(EMPTY)
    /\ out' = PrintLine(out, EMPTY[pj])
    /\ pj' = pj + 1
    /\ UNCHANGED <<pc, file, data, EMPTY, src, it, stack, err>>

\* print('total', len(EMPTY)), and the script ends.
PrintTotal ==
    /\ pc = "print"
    /\ pj > Len(EMPTY)
    /\ out' = PrintTotalLine(out, EMPTY)
    /\ pc' = "done"
    /\ UNCHANGED <<file, data, EMPTY, src, it, stack, pj, err>>

Next ==
    \/ Load
    \/ PrepassTest
    \/ PrepassItem
    \/ PrepassEnd
    \/ WalkVisit
    \/ WalkNext
    \/ WalkReturn
    \/ PrintItem
    \/ PrintTotal

Spec == Init /\ [][Next]_vars

(***************************************************************************)
(* What the claims speak of, stated on the document itself.                *)
(***************************************************************************)
RECURSIVE Routes(_)
\* The routes of all nodes of d, the root included.
Routes(d) ==
    {<<>>} \cup UNION {{<<i>> \o r : r \in Routes(d.xs[i])} : i \in 1..Len(d.xs)}

\* A dict with a member named version whose value is the str of length 0.
HasEmptyVersion(v) ==
    /\ v.t = "dict"
    /\ \E i \in 1..Len(v.ks) :
          v.ks[i] = sVersion /\ v.xs[i].t = "str" /\ Len(v.xs[i].s) = 0

FlaggedRoutes(d) == {r \in Routes(d) : HasEmptyVersion(NodeAt(d, r))}

RECURSIVE PathFrom(_, _, _)
\* acc followed, for each step of route r from node d, by `.` + key for a
\* member step and `[` + index + `]`, the index counted from 0, for an
\* element step.
PathFrom(d, r, acc) ==
    IF r = <<>> THEN acc
    ELSE PathFrom(d.xs[Head(r)], Tail(r),
                  acc \o (IF d.t = "dict"
                          THEN <<".">> \o d.ks[Head(r)]
                          ELSE <<"[">> \o Str(Head(r) - 1) \o <<"]">>))

PathOf(d, r) == PathFrom(d, r, sRoot)

IsPrefix(a, b) == Len(a) <= Len(b) /\ SubSeq(b, 1, Len(a)) = a

IsProperPrefix(a, b) == Len(a) < Len(b) /\ SubSeq(b, 1, Len(a)) = a

\* Pre-order: a node before its descendants, and of two nodes in different
\* subtrees of a container the one under the earlier member or element.
RouteBefore(a, b) ==
    \/ IsProperPrefix(a, b)
    \/ \E n \in 1..Len(a) :
          /\ n <= Len(b)
          /\ SubSeq(a, 1, n - 1) = SubSeq(b, 1, n - 1)
          /\ a[n] < b[n]

ByWalk == {i \in DOMAIN src : src[i].by = "walk"}

ByPrepass == {i \in DOMAIN src : src[i].by = "prepass"}

Loaded == file.st = "ok" /\ pc # "load"

Ended == pc \in {"done", "crashed"}

WalkDone == pc \in {"print", "done"}

RECURSIVE Joined(_)
\* The entries of E, each followed by a line break.
Joined(E) == IF E = <<>> THEN <<>> ELSE Head(E) \o <<NL>> \o Joined(Tail(E))

TotalLine(n) == sTotal \o <<" ">> \o Str(n) \o <<NL>>

\* The number of lines of text o: its line breaks.
LineCount(o) == Cardinality({i \in 1..Len(o) : o[i] = NL})

EndsWith(o, tail) ==
    Len(tail) <= Len(o) /\ SubSeq(o, Len(o) - Len(tail) + 1, Len(o)) = tail

ButLast(o, tail) == SubSeq(o, 1, Len(o) - Len(tail))

(***************************************************************************)
(* C1.  Every document that is parsed terminates normally: the only        *)
(* exceptions that end the script are file-not-found and JSON-parse-       *)
(* failure.  The code raises TypeError and AttributeError in the pre-pass. *)
(***************************************************************************)
C1_OnlyLoadErrorsAreFatal ==
    pc = "crashed" => err \in {"FileNotFoundError", "JSONDecodeError"}

(***************************************************************************)
(* C2.  A document with no dict whose version is the empty string prints   *)
(* exactly the line `total 0`.                                             *)
(***************************************************************************)
C2_NoFlaggedPrintsTotal0 ==
    (Loaded /\ Ended /\ FlaggedRoutes(file.doc) = {}) => out = TotalLine(0)

\* What holds of C2: on the runs that reach the end of the script.
C2_NoFlaggedPrintsTotal0WhenDone ==
    (pc = "done" /\ FlaggedRoutes(file.doc) = {}) => out = TotalLine(0)

(***************************************************************************)
(* C3.  The output ends with a line `total N`, and N is the number of      *)
(* lines printed before it.                                                *)
(***************************************************************************)
C3_TotalIsLineCount ==
    pc = "done" =>
        \E n \in 0..Len(out) :
            /\ EndsWith(out, TotalLine(n))
            /\ LineCount(ButLast(out, TotalLine(n))) = n

\* What holds of C3: the entries are printed in collection order, each
\* followed by a line break, and N is the length of the collection.
C3_TotalIsEntryCount ==
    pc = "done" => out = Joined(EMPTY) \o TotalLine(Len(EMPTY))

(***************************************************************************)
(* C4.  Exact match: whatever the pre-pass or the walk appended an entry   *)
(* for is a dict with a member version that is exactly the empty string;   *)
(* a missing, null, non-empty or non-string version is never flagged.      *)
(***************************************************************************)
C4_ExactMatch ==
    /\ Len(src) = Len(EMPTY)
    /\ \A i \in DOMAIN src : HasEmptyVersion(NodeAt(data, src[i].route))

\* The script ended, flagged something, and left alone a dict whose version
\* is a single space and a dict whose version is null.
C4_Witness ==
    /\ pc = "done"
    /\ src # <<>>
    /\ \E r1, r2 \in Routes(data) :
          /\ DictGet(NodeAt(data, r1), sVersion) = JStr(sSpace)
          /\ NodeAt(data, r2).t = "dict"
          /\ KeyPos(NodeAt(data, r2), sVersion) # 0
          /\ DictGet(NodeAt(data, r2), sVersion) = JNull
          /\ \A i \in DOMAIN src : src[i].route \notin {r1, r2}

(***************************************************************************)
(* C5.  Nested detection: once the walk has returned, every dict of the    *)
(* document whose version is the empty string, at any depth, has exactly   *)
(* one entry of the walk, and that entry is `root` followed by `.key` or   *)
(* `[index]` for each step of its route.                                   *)
(***************************************************************************)
C5_NestedDetection ==
    /\ \A i \in ByWalk : EMPTY[i] = PathOf(data, src[i].route)
    /\ WalkDone =>
          /\ \A r \in FlaggedRoutes(data) :
                Cardinality({i \in ByWalk : src[i].route = r}) = 1
          /\ Cardinality(ByWalk) = Cardinality(FlaggedRoutes(data))

\* A flagged dict four steps deep, through dicts and lists, has its entry.
C5_Witness ==
    /\ pc = "done"
    /\ \E i \in ByWalk :
          /\ Len(src[i].route) >= 4
          /\ NodeAt(data, SubSeq(src[i].route, 1, 1)).t = "list"
          /\ NodeAt(data, SubSeq(src[i].route, 1, 2)).t = "dict"
          /\ NodeAt(data, SubSeq(src[i].route, 1, 3)).t = "list"
          /\ src[i].route[2] = 2
          /\ src[i].route[4] = 2

(***************************************************************************)
(* C6.  When data is a dict whose member packages is a dict, every member  *)
(* of packages that is a dict with an empty version is reported twice,     *)
(* as packages[<key>] by the pre-pass and as root.packages.<key> by the    *)
(* walk, the pre-pass entries first; if nothing else is flagged the total  *)
(* is twice the number of such members.                                    *)
(***************************************************************************)
PackagesIsDict ==
    /\ Loaded
    /\ IsDict(file.doc)
    /\ KeyPos(file.doc, sPackages) # 0
    /\ IsDict(DictGet(file.doc, sPackages))

FlaggedMembers ==
    LET pk == DictGet(file.doc, sPackages)
    IN  {i \in 1..Len(pk.xs) : HasEmptyVersion(pk.xs[i])}

ReportedTwice ==
    LET pos == KeyPos(file.doc, sPackages)
        pk == DictGet(file.doc, sPackages)
    IN  /\ out = Joined(EMPTY) \o TotalLine(Len(EMPTY))
        /\ \A m \in FlaggedMembers :
              /\ Cardinality({i \in ByPrepass : src[i].route = <<pos, m>>}) = 1
              /\ Cardinality({i \in ByWalk : src[i].route = <<pos, m>>}) = 1
              /\ \A i \in ByPrepass :
                    src[i].route = <<pos, m>> =>
                        EMPTY[i] = sPackages \o <<"[">> \o pk.ks[m] \o <<"]">>
              /\ \A i \in ByWalk :
                    src[i].route = <<pos, m>> =>
                        EMPTY[i] = sRoot \o <<".">> \o sPackages \o <<".">> \o pk.ks[m]
        /\ \A i \in ByPrepass, j \in ByWalk : i < j
        /\ FlaggedRoutes(file.doc) = {<<pos, m>> : m \in FlaggedMembers} =>
              Len(EMPTY) = 2 * Cardinality(FlaggedMembers)

C6_PackagesReportedTwice == (PackagesIsDict /\ Ended) => (pc = "done" /\ ReportedTwice)

\* What holds of C6: on the runs that reach the end of the script.
C6_PackagesReportedTwiceWhenDone == (PackagesIsDict /\ pc = "done") => ReportedTwice

(***************************************************************************)
(* C7.  The parsed value is not modified by the pre-pass nor by the walk,  *)
(* and what a run prints is a function of the document alone: two runs on  *)
(* the same input print the same text.                                     *)
(***************************************************************************)
RECURSIVE Walked(_, _)
RECURSIVE WalkedFrom(_, _, _)
\* The paths of the flagged dicts of d in pre-order, d being at path.
Walked(d, path) ==
    (IF HasEmptyVersion(d) THEN <<path>> ELSE <<>>) \o WalkedFrom(d, path, 1)

\* Those of the members or elements of d from position n on.
WalkedFrom(d, path, n) ==
    IF n > Len(d.xs) THEN <<>>
    ELSE Walked(d.xs[n],
                path \o (IF d.t = "dict"
                         THEN <<".">> \o d.ks[n]
                         ELSE <<"[">> \o Str(n - 1) \o <<"]">>))
           \o WalkedFrom(d, path, n + 1)

RECURSIVE PrepassedFrom(_, _)
\* packages[<key>] for the flagged members of dict pk from position n on.
PrepassedFrom(pk, n) ==
    IF n > Len(pk.xs) THEN <<>>
    ELSE (IF HasEmptyVersion(pk.xs[n])
          THEN <<sPackages \o <<"[">> \o pk.ks[n] \o <<"]">>>>
          ELSE <<>>) \o PrepassedFrom(pk, n + 1)

Prepassed(d) ==
    IF d.t = "dict" /\ \E n \in 1..Len(d.ks) : d.ks[n] = sPackages
    THEN PrepassedFrom(DictGet(d, sPackages), 1)
    ELSE <<>>

OutputOf(d) ==
    LET all == Prepassed(d) \o Walked(d, sRoot)
    IN  Joined(all) \o TotalLine(Len(all))

InPasses == pc \in {"prepass", "items", "walk"}

C7_InputUnchanged ==
    [][/\ InPasses => (data' = data)
       /\ pc' = "done" => (data' = file.doc /\ out' = OutputOf(file.doc))]_vars

\* The pre-pass and the walk have both appended entries, and the script has
\* ended.
C7_Witness == pc = "done" /\ ByPrepass # {} /\ ByWalk # {} /\ data = file.doc

(***************************************************************************)
(* C8.  EMPTY only grows at its end, and the entries of the walk are in    *)
(* pre-order: a dict before its descendants, the earlier member or element *)
(* first.                                                                  *)
(***************************************************************************)
WalkInPreOrder ==
    \A i, j \in ByWalk : i < j => RouteBefore(src[i].route, src[j].route)

C8_AppendOnlyPreOrder == [][IsPrefix(EMPTY, EMPTY') /\ WalkInPreOrder']_vars

\* The walk appended a dict, then one of its descendants, then a dict of
\* another subtree.
C8_Witness ==
    /\ pc = "done"
    /\ \E i, j, k \in ByWalk :
          /\ i < j /\ j < k
          /\ IsProperPrefix(src[i].route, src[j].route)
          /\ ~IsPrefix(src[j].route, src[k].route)

(***************************************************************************)
(* C9.  The walk never records the same path twice.  As claimed, for all   *)
(* keys: violated.  As amended, for documents no key of which contains     *)
(* `.` or `[`.                                                             *)
(***************************************************************************)
C9_WalkPathsDistinct == \A i, j \in ByWalk : i # j => EMPTY[i] # EMPTY[j]

KeysPlain(d) ==
    \A r \in Routes(d) :
        \A n \in 1..Len(NodeAt(d, r).ks) :
            \A c \in 1..Len(NodeAt(d, r).ks[n]) :
                NodeAt(d, r).ks[n][c] \notin {".", "["}

C9_WalkPathsDistinctPlainKeys == (Loaded /\ KeysPlain(file.doc)) => C9_WalkPathsDistinct

\* Two entries of the walk, in a document with plain keys, one of them the
\* empty key.
C9_Witness ==
    /\ pc = "done"
    /\ KeysPlain(file.doc)
    /\ Cardinality(ByWalk) >= 2
    /\ \E r \in Routes(data) : sEmpty \in {NodeAt(data, r).ks[n] : n \in 1..Len(NodeAt(data, r).ks)}

(***************************************************************************)
(* C10.  Nothing is printed before the load, the pre-pass and the walk     *)
(* have all completed: a run that ends in an exception has printed         *)
(* nothing.                                                                *)
(***************************************************************************)
C10_NoPartialOutput == pc \in {"load", "prepass", "items", "walk", "crashed"} => out = <<>>

\* The pre-pass had found a flagged member when it raised.
C10_Witness == pc = "crashed" /\ err = "AttributeError" /\ EMPTY # <<>>

====
